---- MODULE Spec2Model ----
(***************************************************************************)
(* The Smpl front end of src/interpreter.py: class Tokenizer (a rule-      *)
(* ordered regex scanner) and class Parser (recursive descent over a       *)
(* deque of tokens), driven as run_compiler drives them.                   *)
(*                                                                         *)
(* A text is a sequence of one-character strings.  A function that can     *)
(* raise returns a record: ok = TRUE with the value, or ok = FALSE with    *)
(* the exception; the parser functions also return the deque as they left  *)
(* it, because Parser mutates self.tokens in place.                        *)
(***************************************************************************)
EXTENDS Integers, Sequences, FiniteSets, TLC

----------------------------------------------------------------------------
(* Bounds of the checked inputs *)

MaxLen == 3       \* texts over Alphabet, every one up to this length
MaxRest == 4      \* letters that follow def or end in a single word
MaxParams == 2    \* parameters of a generated definition
MaxBodyWords == 7 \* words of the body of a generated definition

----------------------------------------------------------------------------
(* Character classes of Python's re module and of str.strip *)

AsciiLetters ==
    {"a","b","c","d","e","f","g","h","i","j","k","l","m",
     "n","o","p","q","r","s","t","u","v","w","x","y","z",
     "A","B","C","D","E","F","G","H","I","J","K","L","M",
     "N","O","P","Q","R","S","T","U","V","W","X","Y","Z"}

Digits == {"0","1","2","3","4","5","6","7","8","9"}

WordChars == AsciiLetters \cup Digits \cup {"_"}

Whitespace == {" ", "\t", "\n", "\r", "\f"}

Max(S) == CHOOSE x \in S : \A y \in S : y <= x

\* \b at offset i of s (0 = before the first character)
Boundary(s, i) ==
    ((i > 0) /\ (s[i] \in WordChars)) # ((i < Len(s)) /\ (s[i+1] \in WordChars))

StartsWith(s, w) == Len(s) >= Len(w) /\ SubSeq(s, 1, Len(w)) = w

\* \b<class>+\b anchored at the start: greedy, backtracking to the longest
\* run that ends on a word boundary; the result is the end offset, 0 = None
RunMatch(s, class) ==
    LET ks == {k \in 1..Len(s) :
                  (\A j \in 1..k : s[j] \in class) /\ Boundary(s, k)}
    IN  IF Boundary(s, 0) /\ ks # {} THEN Max(ks) ELSE 0

rgx_def(s) ==
    IF Boundary(s, 0) /\ StartsWith(s, <<"d","e","f">>) /\ Boundary(s, 3)
    THEN 3 ELSE 0

rgx_end_bounded(s) ==
    IF Boundary(s, 0) /\ StartsWith(s, <<"e","n","d">>) /\ Boundary(s, 3)
    THEN 3 ELSE 0

rgx_end(s) ==
    IF Boundary(s, 0) /\ StartsWith(s, <<"e","n","d">>) THEN 3 ELSE 0

rgx_identifier(s) == RunMatch(s, AsciiLetters)

rgx_integer(s) == RunMatch(s, Digits)

rgx_literal(s, c) == IF StartsWith(s, <<c>>) THEN 1 ELSE 0

TOKEN_TYPES_identifier_first ==
    << <<"_identifier", "\\b[a-zA-Z]+\\b">>,
       <<"_def", "\\bdef\\b">>,
       <<"_end", "\\bend">>,
       <<"_integer", "\\b\\d+\\b">>,
       <<"_oparen", "\\(">>,
       <<"_cparen", "\\)">>,
       <<"_comma", ",">> >>

TOKEN_TYPES ==
    << <<"_def", "\\bdef\\b">>,
       <<"_end", "\\bend">>,
       <<"_identifier", "\\b[a-zA-Z]+\\b">>,
       <<"_integer", "\\b\\d+\\b">>,
       <<"_oparen", "\\(">>,
       <<"_cparen", "\\)">>,
       <<"_comma", ",">> >>

\* re.match(rgx, s): the end of the match span (its start is always 0),
\* or 0 when there is no match
re_match(rgx, s) ==
    CASE rgx = "\\bdef\\b" -> rgx_def(s)
      [] rgx = "\\bend" -> rgx_end(s)
      [] rgx = "\\b[a-zA-Z]+\\b" -> rgx_identifier(s)
      [] rgx = "\\b\\d+\\b" -> rgx_integer(s)
      [] rgx = "\\(" -> rgx_literal(s, "(")
      [] rgx = "\\)" -> rgx_literal(s, ")")
      [] rgx = "," -> rgx_literal(s, ",")

\* Python's s[st:end]
slice_short(s, st, end) == SubSeq(s, st + 1, end - 1)

slice(s, st, end) == SubSeq(s, st + 1, end)

\* Python's s[end:]
slice_from(s, end) == SubSeq(s, end + 1, Len(s))

RECURSIVE lstrip(_)
lstrip(s) ==
    IF s # <<>> /\ Head(s) \in Whitespace THEN lstrip(Tail(s)) ELSE s

RECURSIVE rstrip(_)
rstrip(s) ==
    IF s # <<>> /\ s[Len(s)] \in Whitespace
    THEN rstrip(SubSeq(s, 1, Len(s) - 1)) ELSE s

strip(s) == rstrip(lstrip(s))

Token(type, val) == [type |-> type, val |-> val]

LexError_first_char(inp) ==
    [type |-> "RuntimeError", msg |-> <<"Unexpected token at: ">> \o SubSeq(inp, 1, 1)]

\* RuntimeError(f"Unexpected token at: {self.inp}")
LexError(inp) ==
    [type |-> "RuntimeError", msg |-> <<"Unexpected token at: ">> \o inp]

\* the for loop of Tokenizer.get_one_token from rule i on; inp in the
\* result is self.inp afterwards
RECURSIVE get_one_token_from(_, _)
get_one_token_from(inp, i) ==
    IF i > Len(TOKEN_TYPES)
    THEN [ok |-> FALSE, exc |-> LexError(inp), inp |-> inp]
    ELSE LET end == re_match(TOKEN_TYPES[i][2], inp)
         IN  IF end > 0
             THEN [ok |-> TRUE,
                   val |-> Token(TOKEN_TYPES[i][1], slice(inp, 0, end)),
                   inp |-> slice_from(inp, end)]
             ELSE get_one_token_from(inp, i + 1)

\* Tokenizer.get_one_token on self.inp = inp: the first rule of TOKEN_TYPES
\* that matches wins
get_one_token(inp) == get_one_token_from(inp, 1)

\* the while loop of Tokenizer.get_tokens
RECURSIVE get_tokens_loop(_, _)
get_tokens_loop(inp, tokens) ==
    IF inp = <<>>
    THEN [ok |-> TRUE, val |-> tokens, inp |-> inp]
    ELSE LET t == get_one_token(inp)
         IN  IF ~t.ok
             THEN t
             ELSE get_tokens_loop(strip(t.inp), Append(tokens, t.val))

get_tokens(inp) == get_tokens_loop(inp, <<>>)

----------------------------------------------------------------------------
(* AST nodes (the dataclasses) *)

IntegerNode(val) == [node |-> "IntegerNode", val |-> val]

VarRefNode(val) == [node |-> "VarRefNode", val |-> val]

DefNode(name, body, args) ==
    [node |-> "DefNode", name |-> name, body |-> body, args |-> args]

CallNode(name, args) == [node |-> "CallNode", name |-> name, args |-> args]

\* int(val) of a run of decimal digits
DigitValue(c) ==
    CASE c = "0" -> 0 [] c = "1" -> 1 [] c = "2" -> 2 [] c = "3" -> 3
      [] c = "4" -> 4 [] c = "5" -> 5 [] c = "6" -> 6 [] c = "7" -> 7
      [] c = "8" -> 8 [] c = "9" -> 9

RECURSIVE int(_)
int(val) ==
    IF val = <<>> THEN 0
    ELSE 10 * int(SubSeq(val, 1, Len(val) - 1)) + DigitValue(val[Len(val)])

----------------------------------------------------------------------------
(* Parser: every function takes self.tokens and returns it as it left it *)

Ok(val, tokens) == [ok |-> TRUE, val |-> val, tokens |-> tokens]

Raise(exc, tokens) == [ok |-> FALSE, exc |-> exc, tokens |-> tokens]

\* deque.popleft() on an empty deque and deque[offset] out of range
IndexError == [type |-> "IndexError"]

\* RuntimeError(f"Expected token_type: {expected_type}, got: {token.type}")
ParseError(expected_type, got) ==
    [type |-> "RuntimeError", expected |-> expected_type, got |-> got]

\* Parser.consume: the token is popped before its type is compared
consume(tokens, expected_type) ==
    IF tokens = <<>>
    THEN Raise(IndexError, tokens)
    ELSE LET token == Head(tokens)
         IN  IF token.type = expected_type
             THEN Ok(token, Tail(tokens))
             ELSE Raise(ParseError(expected_type, token.type), Tail(tokens))

\* Parser.peek
peek(tokens, expected_type, offset) ==
    IF offset + 1 > Len(tokens)
    THEN Raise(IndexError, tokens)
    ELSE Ok(tokens[offset + 1].type = expected_type, tokens)

\* the while loop of Parser.parse_args
RECURSIVE parse_args_loop(_, _)
parse_args_loop(tokens, args) ==
    LET p == peek(tokens, "_comma", 0)
    IN  IF ~p.ok THEN p
        ELSE IF ~p.val THEN Ok(args, tokens)
        ELSE LET c == consume(tokens, "_comma")
             IN  IF ~c.ok THEN c
                 ELSE LET a == consume(c.tokens, "_identifier")
                      IN  IF ~a.ok THEN a
                          ELSE parse_args_loop(a.tokens, Append(args, a.val.val))

parse_args_eager(tokens) ==
    LET o == consume(tokens, "_oparen")
    IN  IF ~o.ok THEN o
        ELSE LET a == consume(o.tokens, "_identifier")
             IN  IF ~a.ok THEN a
                 ELSE LET l == parse_args_loop(a.tokens, <<a.val.val>>)
                      IN  IF ~l.ok THEN l
                          ELSE LET c == consume(l.tokens, "_cparen")
                               IN  IF ~c.ok THEN c ELSE Ok(l.val, c.tokens)

\* Parser.parse_args
parse_args(tokens) ==
    LET o == consume(tokens, "_oparen")
    IN  IF ~o.ok THEN o
        ELSE LET p == peek(o.tokens, "_identifier", 0)
             IN  IF ~p.ok THEN p
                 ELSE LET l == IF p.val
                               THEN LET a == consume(o.tokens, "_identifier")
                                    IN  IF ~a.ok THEN a
                                        ELSE parse_args_loop(a.tokens, <<a.val.val>>)
                               ELSE Ok(<<>>, o.tokens)
                      IN  IF ~l.ok THEN l
                          ELSE LET c == consume(l.tokens, "_cparen")
                               IN  IF ~c.ok THEN c ELSE Ok(l.val, c.tokens)

\* Parser.parse_variable_ref
parse_variable_ref(tokens) ==
    LET c == consume(tokens, "_identifier")
    IN  IF ~c.ok THEN c ELSE Ok(VarRefNode(c.val.val), c.tokens)

RECURSIVE parse_expr(_)
RECURSIVE parse_call(_)
RECURSIVE parse_call_args(_)
RECURSIVE parse_call_args_loop(_, _)

\* the while loop of Parser.parse_call_args
parse_call_args_loop(tokens, args) ==
    LET p == peek(tokens, "_comma", 0)
    IN  IF ~p.ok THEN p
        ELSE IF ~p.val THEN Ok(args, tokens)
        ELSE LET c == consume(tokens, "_comma")
             IN  IF ~c.ok THEN c
                 ELSE LET e == parse_expr(c.tokens)
                      IN  IF ~e.ok THEN e
                          ELSE parse_call_args_loop(e.tokens, Append(args, e.val))

\* Parser.parse_call_args
parse_call_args(tokens) ==
    LET o == consume(tokens, "_oparen")
    IN  IF ~o.ok THEN o
        ELSE LET p == peek(o.tokens, "_cparen", 0)
             IN  IF ~p.ok THEN p
                 ELSE LET l == IF ~p.val
                               THEN LET e == parse_expr(o.tokens)
                                    IN  IF ~e.ok THEN e
                                        ELSE parse_call_args_loop(e.tokens, <<e.val>>)
                               ELSE Ok(<<>>, o.tokens)
                      IN  IF ~l.ok THEN l
                          ELSE LET c == consume(l.tokens, "_cparen")
                               IN  IF ~c.ok THEN c ELSE Ok(l.val, c.tokens)

\* Parser.parse_call
parse_call(tokens) ==
    LET n == consume(tokens, "_identifier")
    IN  IF ~n.ok THEN n
        ELSE LET a == parse_call_args(n.tokens)
             IN  IF ~a.ok THEN a ELSE Ok(CallNode(n.val.val, a.val), a.tokens)

\* Parser.parse_expr: `and` evaluates peek("_oparen", 1) only when
\* peek("_identifier") is true
parse_expr(tokens) ==
    LET i == peek(tokens, "_integer", 0)
    IN  IF ~i.ok THEN i
        ELSE IF i.val
        THEN LET c == consume(tokens, "_integer")
             IN  IF ~c.ok THEN c ELSE Ok(IntegerNode(int(c.val.val)), c.tokens)
        ELSE LET d == peek(tokens, "_identifier", 0)
             IN  IF ~d.ok THEN d
                 ELSE IF ~d.val THEN parse_variable_ref(tokens)
                 ELSE LET o == peek(tokens, "_oparen", 1)
                      IN  IF ~o.ok THEN o
                          ELSE IF o.val THEN parse_call(tokens)
                          ELSE parse_variable_ref(tokens)

\* Parser.parse_def
parse_def(tokens) ==
    LET d == consume(tokens, "_def")
    IN  IF ~d.ok THEN d
        ELSE LET n == consume(d.tokens, "_identifier")
             IN  IF ~n.ok THEN n
                 ELSE LET a == parse_args(n.tokens)
                      IN  IF ~a.ok THEN a
                          ELSE LET b == parse_expr(a.tokens)
                               IN  IF ~b.ok THEN b
                                   ELSE LET e == consume(b.tokens, "_end")
                                        IN  IF ~e.ok THEN e
                                            ELSE Ok(DefNode(n.val.val, b.val, a.val),
                                                    e.tokens)

\* Parser.parse
parse(tokens) == parse_def(tokens)

----------------------------------------------------------------------------
(* The input texts *)

\* characters of the exhaustive short texts
Alphabet == {"d", "e", "f", "n", "1", "(", ")", ",", " ", "$"}

\* letters of the single words
WordAlphabet == {"d", "e", "f", "n"}

SeqsUpTo(S, n) == UNION {[1..k -> S] : k \in 0..n}

CharTexts == SeqsUpTo(Alphabet, MaxLen)

w_def == <<"d", "e", "f">>

w_end == <<"e", "n", "d">>

\* a single word: def or end and the letters that follow it
WordTexts == {c[1] \o c[2] : c \in {w_def, w_end} \X SeqsUpTo(WordAlphabet, MaxRest)}

\* words of the generated programs; a program is a sequence of words
NameIdents == {<<"f">>, <<"e", "n", "d", "d">>}

ParamIdents == <<"d", "e", "n", "f">>

BodyIdents == {<<"f">>}

Vocab ==
    NameIdents \cup {w_def, w_end, <<"1">>, <<"(">>, <<")">>, <<",">>, <<"$">>}

\* the elements of a list, each a sequence of words, separated by commas
RECURSIVE JoinComma(_)
JoinComma(items) ==
    IF items = <<>> THEN <<>>
    ELSE IF Len(items) = 1 THEN items[1]
    ELSE items[1] \o << <<",">> >> \o JoinComma(Tail(items))

\* expr and the non-empty arg_list of the grammar, of at most n words
RECURSIVE ExprWords(_)
RECURSIVE ArgWords(_)
ExprWords(n) ==
    IF n < 1 THEN {}
    ELSE {<<a>> : a \in BodyIdents \cup {<<"1">>}}
         \cup (IF n < 3 THEN {}
               ELSE {<<c[1], <<"(">> >> \o c[2] \o << <<")">> >> :
                        c \in BodyIdents \X ({<<>>} \cup ArgWords(n - 3))})

ArgWords(n) ==
    IF n < 1 THEN {}
    ELSE ExprWords(n)
         \cup {c[1] \o << <<",">> >> \o c[2] :
                  c \in {d \in ExprWords(n - 2) \X ArgWords(n - 2) :
                            Len(d[1]) + 1 + Len(d[2]) <= n}}

\* definition of the grammar; its parameters are the first k of ParamIdents
Defs ==
    [name : NameIdents,
     params : {[i \in 1..k |-> <<ParamIdents[i]>>] : k \in 0..MaxParams},
     body : ExprWords(MaxBodyWords)]

DefWords(d) ==
    <<w_def, d.name, <<"(">> >> \o JoinComma([i \in 1..Len(d.params) |-> <<d.params[i]>>])
        \o << <<")">> >> \o d.body \o <<w_end>>

\* a definition, cut short, with one word replaced, or with one word added
Mutations(ws) ==
    {SubSeq(ws, 1, k) : k \in 0..Len(ws)}
        \cup {[ws EXCEPT ![i[1]] = i[2]] : i \in (1..Len(ws)) \X Vocab}
        \cup {Append(ws, w) : w \in Vocab}

ProgramWords == UNION {Mutations(DefWords(d)) : d \in Defs}

Layouts == {"spaced", "tight"}

\* "spaced": one space between any two words; "tight": a space only where
\* two words would otherwise run together
Separator(lay, a, b) ==
    IF lay = "spaced" \/ (a[Len(a)] \in WordChars /\ b[1] \in WordChars)
    THEN <<" ">> ELSE <<>>

RECURSIVE Render(_, _)
Render(ws, lay) ==
    IF ws = <<>> THEN <<>>
    ELSE IF Len(ws) = 1 THEN ws[1]
    ELSE ws[1] \o Separator(lay, ws[1], ws[2]) \o Render(Tail(ws), lay)

ProgramTexts == {Render(p[1], p[2]) : p \in ProgramWords \X Layouts}

Texts == CharTexts \cup WordTexts \cup ProgramTexts

----------------------------------------------------------------------------
(* run_compiler, and Parser.parse_expr called on the scanned tokens *)

VARIABLES
    text,     \* the text handed to Tokenizer(inp)
    inp,      \* Tokenizer.self.inp
    tokens,   \* the deque get_tokens returns, which the Parser then owns
    tree,     \* what the parser returned
    exc,      \* the exception that ended the run
    pc

vars == <<text, inp, tokens, tree, exc, pc>>

None == [type |-> "None"]

Init ==
    /\ text \in Texts
    /\ inp = text
    /\ tokens = <<>>
    /\ tree = None
    /\ exc = None
    /\ pc = "start"

\* tokens = tokenizer.get_tokens()
Tokenize ==
    /\ pc = "start"
    /\ LET r == get_tokens(inp)
       IN  /\ inp' = r.inp
           /\ IF r.ok
              THEN tokens' = r.val /\ exc' = exc /\ pc' = "tokenized"
              ELSE tokens' = tokens /\ exc' = r.exc /\ pc' = "lex_failed"
    /\ UNCHANGED <<text, tree>>

\* tree = Parser(tokens).parse()
Parse ==
    /\ pc = "tokenized"
    /\ LET r == parse(tokens)
       IN  /\ tokens' = r.tokens
           /\ IF r.ok
              THEN tree' = r.val /\ exc' = exc /\ pc' = "parsed"
              ELSE tree' = tree /\ exc' = r.exc /\ pc' = "parse_failed"
    /\ UNCHANGED <<text, inp>>

\* Parser(tokens).parse_expr()
ParseExpr ==
    /\ pc = "tokenized"
    /\ LET r == parse_expr(tokens)
       IN  /\ tokens' = r.tokens
           /\ IF r.ok
              THEN tree' = r.val /\ exc' = exc /\ pc' = "expr_parsed"
              ELSE tree' = tree /\ exc' = r.exc /\ pc' = "expr_failed"
    /\ UNCHANGED <<text, inp>>

Next == Tokenize \/ Parse \/ ParseExpr

Spec == Init /\ [][Next]_vars

----------------------------------------------------------------------------
(* Properties *)

\* the tokens get_tokens returned for the text, before the parser popped any
Scanned == get_tokens(text).val

Lexemes(T) == [i \in 1..Len(T) |-> T[i].val]

RECURSIVE JoinSpaces(_)
JoinSpaces(ws) ==
    IF ws = <<>> THEN <<>>
    ELSE IF Len(ws) = 1 THEN ws[1]
    ELSE ws[1] \o <<" ">> \o JoinSpaces(Tail(ws))

RECURSIVE Concat(_)
Concat(ws) == IF ws = <<>> THEN <<>> ELSE ws[1] \o Concat(Tail(ws))

AllLetters(s) == \A i \in 1..Len(s) : s[i] \in AsciiLetters

Suffix(s, k) == SubSeq(s, k, Len(s))

\* the texts of the grammar and the definition each one writes down
Conforming == {<<Render(DefWords(c[1]), c[2]), c[1]>> : c \in Defs \X Layouts}

\* C1: a text of the grammar (def IDENTIFIER param_list expr end, the
\* identifiers any runs of letters) is scanned and parsed without error, and
\* the DefNode has the name and the parameters of the header, in order.
C1_ParseReflectsHeader ==
    \A c \in Conforming :
        c[1] = text =>
            /\ pc \notin {"lex_failed", "parse_failed"}
            /\ pc = "parsed" =>
                  /\ tree.node = "DefNode"
                  /\ tree.name = c[2].name
                  /\ tree.args = c[2].params

\* C2: parse_expr entered with an identifier as the next token returns a
\* CallNode when the token after it is an opening parenthesis and a
\* VarRefNode in every other case, also when the identifier is the last token.
C2_ExprDispatch ==
    (pc \in {"expr_parsed", "expr_failed"}
        /\ Scanned # <<>> /\ Scanned[1].type = "_identifier") =>
        IF Len(Scanned) >= 2 /\ Scanned[2].type = "_oparen"
        THEN pc = "expr_parsed" => tree.node = "CallNode"
        ELSE pc = "expr_parsed" /\ tree = VarRefNode(Scanned[1].val)

\* C3: when parse succeeds every token of the sequence has been consumed:
\* nothing is left after the closing end.
C3_ParseConsumesAll == pc = "parsed" => tokens = <<>>

\* C4: every failure of the parser, also the one of an exhausted token
\* sequence, is the error of a kind mismatch and carries the expected kind.
C4_OneParseErrorKind ==
    pc \in {"parse_failed", "expr_failed"} =>
        exc.type = "RuntimeError" /\ "expected" \in DOMAIN exc

\* the index of the token that follows `def IDENTIFIER (` and the longest
\* run of parameters IDENTIFIER { , IDENTIFIER }
RECURSIVE AfterParam(_, _)
AfterParam(T, j) ==
    IF j + 1 <= Len(T) /\ T[j].type = "_comma" /\ T[j+1].type = "_identifier"
    THEN AfterParam(T, j + 2) ELSE j

ParamStop(T) ==
    IF Len(T) >= 4 /\ T[4].type = "_identifier" THEN AfterParam(T, 5) ELSE 4

\* the case of C5: a header, its parameters, then a token that is neither a
\* comma nor a closing parenthesis
BadParamList(T) ==
    /\ Len(T) >= ParamStop(T)
    /\ T[1].type = "_def" /\ T[2].type = "_identifier" /\ T[3].type = "_oparen"
    /\ T[ParamStop(T)].type \notin {"_comma", "_cparen"}

\* C5: when the token after the opening parenthesis and the parameters of a
\* definition is neither a comma nor a closing parenthesis, parse fails at
\* that token, expecting _cparen and naming the kind it found, and returns
\* no tree.
C5_ParamListError ==
    (pc \in {"parsed", "parse_failed"} /\ BadParamList(Scanned)) =>
        /\ pc = "parse_failed"
        /\ exc = ParseError("_cparen", Scanned[ParamStop(Scanned)].type)
        /\ tree = None
        /\ tokens = Suffix(Scanned, ParamStop(Scanned) + 1)

C5_Witness ==
    /\ pc = "parse_failed"
    /\ BadParamList(Scanned)
    /\ ParamStop(Scanned) > 4
    /\ Scanned[ParamStop(Scanned)].type = "_integer"

NoRuleMatches(s) == \A i \in 1..Len(TOKEN_TYPES) : re_match(TOKEN_TYPES[i][2], s) = 0

C7_RoundTrip ==
    pc = "parsed" =>
        LET again == get_tokens(JoinSpaces(Lexemes(Scanned)))
        IN  /\ again.ok
            /\ again.val = Scanned
            /\ parse(again.val).ok
            /\ parse(again.val).val = tree

C7_Witness ==
    /\ pc = "parsed"
    /\ JoinSpaces(Lexemes(Scanned)) # text
    /\ tree.body.node = "CallNode"
    /\ Len(tree.body.args) = 2

\* C8: a token whose lexeme is def or end is the keyword token, never an
\* identifier, and the text `end` alone (or `def` alone) is one keyword token.
C8_KeywordPriority ==
    pc = "tokenized" =>
        /\ \A i \in 1..Len(tokens) :
              /\ tokens[i].val = w_def => tokens[i].type = "_def"
              /\ tokens[i].val = w_end => tokens[i].type = "_end"
              /\ tokens[i].type = "_identifier" => tokens[i].val \notin {w_def, w_end}
        /\ text = w_end => tokens = <<Token("_end", w_end)>>
        /\ text = w_def => tokens = <<Token("_def", w_def)>>

C8_Witness == pc = "tokenized" /\ text = w_end /\ tokens = <<Token("_end", w_end)>>

\* C9: whitespace before a token, the first one included, is skipped: a text
\* is scanned as the text without its leading whitespace is, a text of
\* whitespace only gives no tokens and no error, and no lexeme holds
\* whitespace.
C9_LeadingWhitespaceSkipped ==
    pc \in {"tokenized", "lex_failed"} =>
        LET bare == get_tokens(lstrip(text))
        IN  /\ bare.ok => (pc = "tokenized" /\ tokens = bare.val)
            /\ ~bare.ok => pc = "lex_failed"
            /\ \A i \in 1..Len(tokens) :
                  \A j \in 1..Len(tokens[i].val) : tokens[i].val[j] \notin Whitespace

\* a word of letters that starts with w and goes on
LongerWord(s, w) == AllLetters(s) /\ StartsWith(s, w) /\ Len(s) > Len(w)

\* C10 as stated: a word of end and further letters is scanned to the token
\* end and one more token that holds the rest of the word; a word of def and
\* further letters is one identifier.
C10_EndPrefixTwoTokens ==
    pc \in {"tokenized", "lex_failed"} =>
        /\ LongerWord(text, w_end) =>
              /\ pc = "tokenized"
              /\ Len(tokens) = 2
              /\ tokens[1] = Token("_end", w_end)
              /\ tokens[2].val = Suffix(text, 4)
        /\ LongerWord(text, w_def) =>
              pc = "tokenized" /\ tokens = <<Token("_identifier", text)>>

\* C10 amended: a word of end and further letters is scanned to one or more
\* tokens end, each with the lexeme end, and then at most one token, a
\* keyword def or an identifier, that holds the letters left; the lexemes
\* make up the word and there are at least two tokens.  A word of def and
\* further letters is one identifier.
C10_EndPrefixSplit ==
    pc \in {"tokenized", "lex_failed"} =>
        /\ LongerWord(text, w_end) =>
              /\ pc = "tokenized"
              /\ Len(tokens) >= 2
              /\ tokens[1] = Token("_end", w_end)
              /\ Concat(Lexemes(tokens)) = text
              /\ \A i \in 1..(Len(tokens) - 1) : tokens[i] = Token("_end", w_end)
              /\ tokens[Len(tokens)].type \in {"_end", "_def", "_identifier"}
              /\ tokens[Len(tokens)].type = "_end" => tokens[Len(tokens)].val = w_end
        /\ LongerWord(text, w_def) =>
              pc = "tokenized" /\ tokens = <<Token("_identifier", text)>>

C10_Witness ==
    /\ pc = "tokenized"
    /\ LongerWord(text, w_end)
    /\ Len(tokens) = 3
    /\ tokens[3].type = "_identifier"

====
